---------------------------- MODULE Spec2Model ----------------------------
(***************************************************************************)
(* Reminder scheduling core of the Daily Task Scheduler backend:           *)
(*   reminder_logic.py    fire-time calculator (compute_next_fire_at)      *)
(*   reminder_service.py  the periodic tick and the missed-task detector   *)
(*   routes/reminders.py  create / acknowledge / snooze / delete           *)
(*   routes/tasks.py      create / complete / uncomplete / delete task     *)
(*                                                                         *)
(* Instants are naive UTC datetimes, counted in seconds from 00:00:00 of a *)
(* Monday (day 0), so that datetime.weekday() is (t \div Day) % 7.         *)
(***************************************************************************)
EXTENDS Integers, Sequences, FiniteSets, TLC

VARIABLES
    now,        \* datetime.utcnow(): the server clock
    tasks,      \* table "tasks": id -> row
    reminders,  \* table "task_reminders": id -> row
    last_id,    \* last primary key handed out for task_reminders
    ticks,      \* the _tick runs now executing in the scheduler's executor
    scheduler,  \* the module global "scheduler" of reminder_service.py
    runs,       \* how many _tick runs the scheduler has started
    resp        \* the last answer of routes/reminders.py, or the tick's error line

vars == <<now, tasks, reminders, last_id, ticks, scheduler, runs, resp>>

----------------------------------------------------------------------------
(* Units and sentinels *)

Minute == 60
Hour   == 60 * Minute
Day    == 24 * Hour

\* Python None / SQL NULL in a datetime column (instants are >= 0)
None == -1
\* compute_next_fire_at left by an exception (ValueError of int())
Raised == -2

----------------------------------------------------------------------------
(* Bounds of the model *)

\* _tick runs the scheduler starts
MaxRuns == 2

\* the days the clock runs over: a Monday and the Tuesday after it
GridDays == {0, 1}

\* the times of day <<hour, minute, second>> at which the clock is observed,
\* placed around the 09:00:00 slot of the tasks: 31 s and 29 s before it,
\* 89 s and 91 s after it, and ten minutes after those
GridTimes == { <<8, 59, 29>>, <<8, 59, 31>>, <<9, 1, 29>>, <<9, 1, 31>>, <<9, 11, 29>> }

Instants ==
    { d * Day + t[1] * Hour + t[2] * Minute + t[3] : d \in GridDays, t \in GridTimes }

\* inputs of create_task, and the ids requests name
TaskIds == {1}
\* the primary keys create_reminder may hand out
CreateIds == {1}
TaskDates == {0}
TaskTimes == {9 * 60}

----------------------------------------------------------------------------
(* Program constants *)

\* reminder_logic.py
SNOOZE_OPTIONS_MINUTES == {5, 10, 30, 60}
BEFORE_OPTIONS_MINUTES == {0, 5, 10, 15, 30, 60}
MISSED_REMINDER_HOUR_LOCAL == 9

\* schemas.py ("" is turned into None by validate_recurrence)
VALID_REMINDER_TYPES == {"exact", "before", "missed"}
VALID_RECURRENCES == {"", "daily", "weekly", "weekdays", "custom"}
VALID_STATUSES == {"pending", "due", "acknowledged", "snoozed"}

\* reminder_service.py: scheduler.add_job(...)
max_instances == 1
misfire_grace_time == 45

\* _tick: next_fire_at <= now_utc + timedelta(seconds=30)
EarlySeconds == 30
\* is_due: tolerance_seconds
tolerance_seconds == 90

----------------------------------------------------------------------------
(* recurrence_days: the string, kept as the list str.split(",") yields.    *)
(* <<>> is None (no string); <<"">> is the empty string.                   *)

NoDays == <<>>

\* bool(recurrence_days)
Truthy(days) == days # <<>> /\ days # <<"">>

\* d.strip(): the tokens of the model carry blanks only as " "
Strip(tok) == IF tok = " " THEN "" ELSE tok

\* the tokens int() accepts, with their values
IntOf == ("0" :> 0) @@ ("1" :> 1) @@ ("2" :> 2) @@ ("3" :> 3) @@ ("4" :> 4)
         @@ ("5" :> 5) @@ ("6" :> 6) @@ ("7" :> 7)

\* int(d) raises ValueError
IntRaises(tok) == tok \notin DOMAIN IntOf

\* the tokens the set comprehension converts: those with d.strip() non-empty
Kept(days) == { days[k] : k \in { j \in 1..Len(days) : Strip(days[j]) # "" } }

\* {int(d) for d in recurrence_days.split(",") if d.strip()} raises
ParseRaises(days) == \E tok \in Kept(days) : IntRaises(tok)

\* {int(d) for d in recurrence_days.split(",") if d.strip()}
ParseAllowed(days) == { IntOf[tok] : tok \in { t \in Kept(days) : ~IntRaises(t) } }

----------------------------------------------------------------------------
(* reminder_logic.py *)

\* datetime.weekday(): Monday is 0
weekday(t) == (t \div Day) % 7

\* datetime.date() as a day number; "YYYY-MM-DD" strings order the same way
date(t) == t \div Day

task_scheduled_utc(scheduled_date, scheduled_time, tz_offset_minutes) ==
    (scheduled_date * Day + scheduled_time * Minute) - tz_offset_minutes * Minute

\* the "missed" branch of compute_next_fire_at
MissedFire(tz_offset_minutes, now_utc) ==
    LET local_9am == date(now_utc + tz_offset_minutes * Minute) * Day
                     + MISSED_REMINDER_HOUR_LOCAL * Hour
        today_9am_utc == local_9am - tz_offset_minutes * Minute
        tomorrow_local_9am == IF now_utc >= today_9am_utc THEN local_9am + Day
                              ELSE local_9am
    IN  tomorrow_local_9am - tz_offset_minutes * Minute

\* (mutant) the loop stopping when the cursor has reached now_utc
RECURSIVE StepUntilAfterLax(_, _, _)
StepUntilAfterLax(cursor, step, now_utc) ==
    IF cursor < now_utc THEN StepUntilAfterLax(cursor + step, step, now_utc)
    ELSE cursor

\* while cursor <= now_utc: cursor += step
RECURSIVE StepUntilAfter(_, _, _)
StepUntilAfter(cursor, step, now_utc) ==
    IF cursor <= now_utc THEN StepUntilAfter(cursor + step, step, now_utc)
    ELSE cursor

\* (mutant) the search without the weekday test
RECURSIVE ProbeAnyDay(_, _, _, _)
ProbeAnyDay(cursor, allowed, now_utc, n) ==
    IF n = 0 THEN None
    ELSE IF cursor > now_utc THEN cursor
    ELSE ProbeAnyDay(cursor + Day, allowed, now_utc, n - 1)

\* for _ in range(n): if accepted(cursor) and cursor > now_utc: return cursor
\*                    cursor += timedelta(days=1)
\* return None
RECURSIVE Probe(_, _, _, _)
Probe(cursor, allowed, now_utc, n) ==
    IF n = 0 THEN None
    ELSE IF weekday(cursor) \in allowed /\ cursor > now_utc THEN cursor
    ELSE Probe(cursor + Day, allowed, now_utc, n - 1)

\* range(14), the safety cap of the weekdays / custom search
ProbeCap == 14

\* the recurring part of compute_next_fire_at, from "cursor = ..." on
Recurring(fire_utc, recurrence, recurrence_days, last_fired_at, now_utc) ==
    LET cursor == IF last_fired_at # None THEN last_fired_at ELSE fire_utc
    IN  CASE recurrence = "daily"  -> StepUntilAfter(cursor, Day, now_utc)
          [] recurrence = "weekly" -> StepUntilAfter(cursor, 7 * Day, now_utc)
          [] recurrence = "weekdays" ->
                Probe(cursor + Day, 0..4, now_utc, ProbeCap)
          [] recurrence = "custom" /\ Truthy(recurrence_days) ->
                IF ParseRaises(recurrence_days) THEN Raised
                ELSE Probe(cursor + Day, ParseAllowed(recurrence_days), now_utc, ProbeCap)
          [] OTHER -> None

\* (mutant) the one-shot branch returning fire_utc without the future check
compute_next_fire_at_unchecked(reminder_type, scheduled_date, scheduled_time, before_minutes, tz_offset_minutes, recurrence, recurrence_days, last_fired_at, now_utc) ==
    IF reminder_type = "missed" THEN MissedFire(tz_offset_minutes, now_utc)
    ELSE
      LET base_utc == task_scheduled_utc(scheduled_date, scheduled_time, tz_offset_minutes)
          fire_utc == base_utc - before_minutes * Minute
      IN  IF recurrence = "" THEN fire_utc
          ELSE IF last_fired_at = None /\ fire_utc > now_utc THEN fire_utc
          ELSE Recurring(fire_utc, recurrence, recurrence_days, last_fired_at, now_utc)

\* (mutant) the calculator keeping the result of the call before as its cursor
compute_next_fire_at_resuming(reminder_type, scheduled_date, scheduled_time, before_minutes, tz_offset_minutes, recurrence, recurrence_days, last_fired_at, now_utc) ==
    IF reminder_type = "missed" THEN MissedFire(tz_offset_minutes, now_utc)
    ELSE
      LET base_utc == task_scheduled_utc(scheduled_date, scheduled_time, tz_offset_minutes)
          fire_utc == base_utc - before_minutes * Minute
          kept == IF resp.op = "compute_next_fire_at" /\ resp.result >= 0 THEN resp.result
                  ELSE last_fired_at
      IN  IF recurrence = "" THEN (IF fire_utc > now_utc THEN fire_utc ELSE None)
          ELSE IF kept = None /\ fire_utc > now_utc THEN fire_utc
          ELSE Recurring(fire_utc, recurrence, recurrence_days, kept, now_utc)

\* compute_next_fire_at; now_utc is its own reading of datetime.utcnow()
compute_next_fire_at(reminder_type, scheduled_date, scheduled_time, before_minutes, tz_offset_minutes, recurrence, recurrence_days, last_fired_at, now_utc) ==
    IF reminder_type = "missed" THEN MissedFire(tz_offset_minutes, now_utc)
    ELSE
      LET base_utc == task_scheduled_utc(scheduled_date, scheduled_time, tz_offset_minutes)
          fire_utc == base_utc - before_minutes * Minute
      IN  IF recurrence = "" THEN (IF fire_utc > now_utc THEN fire_utc ELSE None)
          ELSE IF last_fired_at = None /\ fire_utc > now_utc THEN fire_utc
          ELSE Recurring(fire_utc, recurrence, recurrence_days, last_fired_at, now_utc)

\* is_due(next_fire_at, tolerance_seconds=90) read at clock now_utc
is_due(next_fire_at, now_utc) ==
    /\ next_fire_at # None
    /\ now_utc - tolerance_seconds <= next_fire_at
    /\ next_fire_at <= now_utc + 30

----------------------------------------------------------------------------
(* Rows *)

\* models.TaskReminder(...) as create_reminder and the detector build it:
\* the column defaults give status "pending" and fire_count 0
NewReminder(task_id, reminder_type, before_minutes, recurrence, recurrence_days, next_fire) ==
    [ task_id         |-> task_id,
      reminder_type   |-> reminder_type,
      before_minutes  |-> before_minutes,
      recurrence      |-> recurrence,
      recurrence_days |-> recurrence_days,
      status          |-> "pending",
      next_fire_at    |-> next_fire,
      snooze_until    |-> None,
      fire_count      |-> 0,
      fired_at        |-> None,
      acknowledged_at |-> None ]

\* models.Task(**task.dict()): is_completed defaults to False
NewTask(scheduled_date, scheduled_time) ==
    [ scheduled_date |-> scheduled_date,
      scheduled_time |-> scheduled_time,
      is_completed   |-> FALSE ]

\* a function with one more / one fewer row
Insert(table, id, row) == (id :> row) @@ table
Delete(table, ids) == [ i \in (DOMAIN table) \ ids |-> table[i] ]

\* the outcome of a request: HTTP status and the status named in "detail"
Resp(op, id, code, detail) == [ op |-> op, id |-> id, code |-> code, detail |-> detail ]

----------------------------------------------------------------------------
(* Inputs of create_reminder: bodies schemas.ReminderCreate accepts *)

Body(reminder_type, before_minutes, recurrence, recurrence_days, tz_offset_minutes) ==
    [ reminder_type |-> reminder_type, before_minutes |-> before_minutes,
      recurrence |-> recurrence, recurrence_days |-> recurrence_days,
      tz_offset_minutes |-> tz_offset_minutes ]

Bodies ==
    { Body("exact",  0,  "",         NoDays,            0),
      Body("exact",  0,  "daily",    NoDays,            0),
      Body("before", 10, "weekdays", NoDays,            0),
      Body("exact",  0,  "custom",   <<"x">>,           0),
      Body("before", 10, "",         NoDays,            -10),
      Body("missed", 0,  "",         NoDays,            0) }

----------------------------------------------------------------------------
(* reminder_service.py: the steps of one _tick run.                        *)
(* A run is [pc, now_utc, sess, added]: where it stands, its now_utc, the  *)
(* rows its session has loaded and changed (id -> [obj, dirty]) and the    *)
(* rows it has db.add()ed (task id -> row). The session does not autoflush *)
(* (database.py), so its queries read the committed tables.                *)

NoRows == [ i \in {} |-> 0 ]

\* (mutant) the status filter left out of the step 1 query
CandidateAnyStatus(r, now_utc) ==
    /\ r.next_fire_at # None
    /\ r.next_fire_at <= now_utc + EarlySeconds

\* (mutant) the step 1 query looking a full minute ahead
CandidateMinuteAhead(r, now_utc) ==
    /\ r.status \in {"pending", "snoozed"}
    /\ r.next_fire_at # None
    /\ r.next_fire_at <= now_utc + Minute

\* (mutant) the step 1 query keeping only what is_due accepts
CandidateInTolerance(r, now_utc) ==
    /\ r.status \in {"pending", "snoozed"}
    /\ is_due(r.next_fire_at, now_utc)

\* the filter of the step 1 query
Candidate(r, now_utc) ==
    /\ r.status \in {"pending", "snoozed"}
    /\ r.next_fire_at # None
    /\ r.next_fire_at <= now_utc + EarlySeconds

\* (mutant) the step 1 loop without the fire_count assignment
ActivateNoCount(r, now_utc) ==
    [ r EXCEPT !.status = "due", !.fired_at = now_utc ]

\* (mutant) the step 1 loop without the fired_at assignment
ActivateNoStamp(r, now_utc) ==
    [ r EXCEPT !.status = "due", !.fire_count = @ + 1 ]

\* the body of the step 1 loop
Activate(r, now_utc) ==
    [ r EXCEPT !.status = "due", !.fired_at = now_utc, !.fire_count = @ + 1 ]

\* (mutant) step 1 passing over the reminders of completed tasks
Step1OpenOnly(rems, now_utc) ==
    [ i \in { j \in DOMAIN rems :
                /\ Candidate(rems[j], now_utc)
                /\ ~(rems[j].task_id \in DOMAIN tasks /\ tasks[rems[j].task_id].is_completed) } |->
        [ obj |-> Activate(rems[i], now_utc),
          dirty |-> {"status", "fired_at", "fire_count"} ] ]

\* step 1: load the candidates and flip them to "due" in the session
Step1(rems, now_utc) ==
    [ i \in { j \in DOMAIN rems : Candidate(rems[j], now_utc) } |->
        [ obj |-> Activate(rems[i], now_utc),
          dirty |-> {"status", "fired_at", "fire_count"} ] ]

\* the object the session holds for row i: the one already loaded, else the row
Loaded(sess, rems, i) == IF i \in DOMAIN sess THEN sess[i].obj ELSE rems[i]

\* (mutant) the recurrence filters left out of the step 2 query
AnyAcked(r) == r.status = "acknowledged"

\* the filter of the step 2 query
RecurringAcked(r) == r.status = "acknowledged" /\ r.recurrence # ""

\* "if task is None or task.is_completed: continue"
Skipped(r, tsks) == r.task_id \notin DOMAIN tsks \/ tsks[r.task_id].is_completed

\* the call of compute_next_fire_at in step 2 (tz_offset_minutes=0)
NextFire(r, tsks, clock) ==
    compute_next_fire_at(r.reminder_type, tsks[r.task_id].scheduled_date,
                         tsks[r.task_id].scheduled_time, r.before_minutes, 0,
                         r.recurrence, r.recurrence_days, r.fired_at, clock)

\* the rows step 2 works on
Step2Rows(sess, rems, tsks) ==
    { i \in DOMAIN rems : RecurringAcked(rems[i]) /\ ~Skipped(Loaded(sess, rems, i), tsks) }

\* step 2 leaves _tick by an exception
Step2Raises(sess, rems, tsks, clock) ==
    \E i \in Step2Rows(sess, rems, tsks) : NextFire(Loaded(sess, rems, i), tsks, clock) = Raised

\* (mutant) the re-arm without the acknowledged_at assignment
RearmKeepsAck(r, next_fire) ==
    [ r EXCEPT !.next_fire_at = next_fire, !.status = "pending" ]

\* "if next_fire:" and the three assignments under it
Rearm(r, next_fire) ==
    [ r EXCEPT !.next_fire_at = next_fire, !.status = "pending", !.acknowledged_at = None ]

\* (mutant) step 2 without "if next_fire:"
Step2Unchecked(sess, rems, tsks, clock) ==
    LET rows == Step2Rows(sess, rems, tsks)
    IN  [ i \in (DOMAIN sess) \cup rows |->
            IF i \in rows
            THEN [ obj |-> Rearm(Loaded(sess, rems, i),
                                 NextFire(Loaded(sess, rems, i), tsks, clock)),
                   dirty |-> (IF i \in DOMAIN sess THEN sess[i].dirty ELSE {})
                             \cup {"next_fire_at", "status", "acknowledged_at"} ]
            ELSE sess[i] ]

\* (mutant) step 2 flipping to "due" what it has re-armed for an instant the
\* step 1 filter accepts
Step2Repromoting(sess, rems, tsks, clock) ==
    LET rows == { i \in Step2Rows(sess, rems, tsks) :
                    NextFire(Loaded(sess, rems, i), tsks, clock) # None }
        armed(i) == Rearm(Loaded(sess, rems, i),
                          NextFire(Loaded(sess, rems, i), tsks, clock))
    IN  [ i \in (DOMAIN sess) \cup rows |->
            IF i \in rows
            THEN IF Candidate(armed(i), clock)
                 THEN [ obj |-> Activate(armed(i), clock),
                        dirty |-> {"next_fire_at", "status", "acknowledged_at",
                                   "fired_at", "fire_count"} ]
                 ELSE [ obj |-> armed(i),
                        dirty |-> {"next_fire_at", "status", "acknowledged_at"} ]
            ELSE sess[i] ]

\* step 2: re-arm the acknowledged recurring reminders in the session
Step2(sess, rems, tsks, clock) ==
    LET rows == { i \in Step2Rows(sess, rems, tsks) :
                    NextFire(Loaded(sess, rems, i), tsks, clock) # None }
    IN  [ i \in (DOMAIN sess) \cup rows |->
            IF i \in rows
            THEN [ obj |-> Rearm(Loaded(sess, rems, i),
                                 NextFire(Loaded(sess, rems, i), tsks, clock)),
                   dirty |-> (IF i \in DOMAIN sess THEN sess[i].dirty ELSE {})
                             \cup {"next_fire_at", "status", "acknowledged_at"} ]
            ELSE sess[i] ]

\* the trailing window of the detector's scan, in days
ScanDays == 7

\* (mutant) the overdue_tasks query without the week_ago bound
OverdueUnbounded(t, now_utc) ==
    /\ ~t.is_completed
    /\ t.scheduled_date <= date(now_utc) - 1

\* the filter of the overdue_tasks query
Overdue(t, now_utc) ==
    /\ ~t.is_completed
    /\ t.scheduled_date >= date(now_utc) - ScanDays
    /\ t.scheduled_date <= date(now_utc) - 1

\* (mutant) the detector without its "existing" query
ActiveMissedNever(rems, task_id) == FALSE

\* (mutant) the "existing" query without its status filter
ActiveMissedAnyStatus(rems, task_id) ==
    \E i \in DOMAIN rems :
        /\ rems[i].task_id = task_id
        /\ rems[i].reminder_type = "missed"

\* (mutant) the "existing" query looking for "pending" rows only
ActiveMissedPendingOnly(rems, task_id) ==
    \E i \in DOMAIN rems :
        /\ rems[i].task_id = task_id
        /\ rems[i].reminder_type = "missed"
        /\ rems[i].status = "pending"

\* the "existing" query of the detector finds a row
ActiveMissed(rems, task_id) ==
    \E i \in DOMAIN rems :
        /\ rems[i].task_id = task_id
        /\ rems[i].reminder_type = "missed"
        /\ rems[i].status \in {"pending", "due", "snoozed"}

\* datetime(year, month, day, 9, 0, 0) + timedelta(days=1)
Tomorrow9am(now_utc) == date(now_utc) * Day + 9 * Hour + Day

\* _create_missed_reminders: the rows it adds to the session
Step3(rems, tsks, now_utc) ==
    [ t \in { u \in DOMAIN tsks : Overdue(tsks[u], now_utc) /\ ~ActiveMissed(rems, u) } |->
        NewReminder(t, "missed", 0, "", NoDays, Tomorrow9am(now_utc)) ]

\* whether the store checks the foreign key task_reminders.task_id on INSERT:
\* PostgreSQL does; the SQLite file database.py falls back to does not, since
\* no "PRAGMA foreign_keys" is issued on its connections
ForeignKeysChecked == {TRUE, FALSE}

\* db.commit() raises: a changed row is gone (StaleDataError), or an added
\* row's task is gone and the store checks the foreign key (IntegrityError)
CommitRaises(run, rems, tsks, checked) ==
    \/ \E i \in DOMAIN run.sess : i \notin DOMAIN rems
    \/ checked /\ \E t \in DOMAIN run.added : t \notin DOMAIN tsks

\* the UPDATE of one changed row: only the changed columns are written
Flushed(row, entry) ==
    [ f \in DOMAIN row |-> IF f \in entry.dirty THEN entry.obj[f] ELSE row[f] ]

\* position of t among the added rows, in insertion order (by task id)
Rank(added, t) == Cardinality({ u \in DOMAIN added : u <= t })

\* db.commit(): the session's UPDATEs and INSERTs, all in one transaction
Commit(run, rems, last) ==
    LET updated == [ i \in DOMAIN rems |->
                       IF i \in DOMAIN run.sess THEN Flushed(rems[i], run.sess[i])
                       ELSE rems[i] ]
        inserted == [ i \in { last + Rank(run.added, t) : t \in DOMAIN run.added } |->
                       run.added[CHOOSE t \in DOMAIN run.added : last + Rank(run.added, t) = i] ]
    IN  inserted @@ updated

\* (mutant) the except branch committing what the session holds
RollbackPartial(run, rems, last) ==
    IF \E i \in DOMAIN run.sess : i \notin DOMAIN rems THEN rems ELSE Commit(run, rems, last)

\* db.rollback(): nothing of the run reaches the tables
Rollback(run, rems, last) == rems

\* a _tick run from start to commit with no other transaction in between
FullTick(rems, tsks, last, clock) ==
    LET s1 == Step1(rems, clock)
        run == [ pc |-> "commit", now_utc |-> clock,
                 sess |-> Step2(s1, rems, tsks, clock),
                 added |-> Step3(rems, tsks, clock) ]
    IN  IF Step2Raises(s1, rems, tsks, clock) \/ CommitRaises(run, rems, tsks, TRUE)
        THEN Rollback(run, rems, last)
        ELSE Commit(run, rems, last)

\* the sequence without its k-th element
Without(seq, k) == [ j \in 1..(Len(seq) - 1) |-> IF j < k THEN seq[j] ELSE seq[j + 1] ]

----------------------------------------------------------------------------
(* Initial state: empty tables, service not started *)

FirstInstant == CHOOSE t \in Instants : \A u \in Instants : t <= u

Init ==
    /\ now = FirstInstant
    /\ tasks = NoRows
    /\ reminders = NoRows
    /\ last_id = 0
    /\ ticks = <<>>
    /\ scheduler = [ running |-> FALSE, next_run_time |-> None ]
    /\ runs = 0
    /\ resp = Resp("init", 0, 0, "")

----------------------------------------------------------------------------
(* The clock. The job has coalesce=True: the run times that pass while the  *)
(* scheduler sleeps roll into one, the last (the top of the current        *)
(* minute), which next_run_time holds until the scheduler wakes.           *)

\* CronTrigger(second=0): the last fire time at or before t
RunTime(t) == (t \div Minute) * Minute

Advance(t) ==
    /\ t > now
    /\ now' = t
    /\ scheduler' = IF scheduler.running /\ scheduler.next_run_time <= t
                    THEN [ scheduler EXCEPT !.next_run_time = RunTime(t) ]
                    ELSE scheduler
    /\ UNCHANGED <<tasks, reminders, last_id, ticks, runs, resp>>

----------------------------------------------------------------------------
(* routes/tasks.py *)

\* the primary key the next INSERT into tasks gets
NextTaskId == IF DOMAIN tasks = {} THEN 1
              ELSE (CHOOSE i \in DOMAIN tasks : \A j \in DOMAIN tasks : j <= i) + 1

create_task(scheduled_date, scheduled_time) ==
    /\ NextTaskId \in TaskIds
    /\ tasks' = Insert(tasks, NextTaskId, NewTask(scheduled_date, scheduled_time))
    /\ UNCHANGED <<now, reminders, last_id, ticks, scheduler, runs, resp>>

\* (a task_id that is no row is answered 404 and changes nothing)
complete_task(task_id) ==
    /\ task_id \in DOMAIN tasks
    /\ tasks' = [ tasks EXCEPT ![task_id].is_completed = TRUE ]
    /\ UNCHANGED <<now, reminders, last_id, ticks, scheduler, runs, resp>>

uncomplete_task(task_id) ==
    /\ task_id \in DOMAIN tasks
    /\ tasks' = [ tasks EXCEPT ![task_id].is_completed = FALSE ]
    /\ UNCHANGED <<now, reminders, last_id, ticks, scheduler, runs, resp>>

\* db.delete(db_task): the relationship's cascade deletes the task's reminders
delete_task(task_id) ==
    /\ task_id \in DOMAIN tasks
    /\ tasks' = Delete(tasks, {task_id})
    /\ reminders' = Delete(reminders,
                           { i \in DOMAIN reminders : reminders[i].task_id = task_id })
    /\ UNCHANGED <<now, last_id, ticks, scheduler, runs, resp>>

----------------------------------------------------------------------------
(* routes/reminders.py *)

\* the next_fire create_reminder computes for an existing, open task
CreateFire(task, body) ==
    IF body.reminder_type = "missed" THEN Tomorrow9am(now)
    ELSE compute_next_fire_at(body.reminder_type, task.scheduled_date, task.scheduled_time,
                              body.before_minutes, body.tz_offset_minutes,
                              body.recurrence, body.recurrence_days, None, now)

\* the HTTP status create_reminder answers with
CreateCode(task_id, body) ==
    IF task_id \notin DOMAIN tasks THEN 404
    ELSE IF tasks[task_id].is_completed THEN 400
    ELSE IF CreateFire(tasks[task_id], body) = Raised THEN 500
    ELSE IF CreateFire(tasks[task_id], body) = None THEN 400
    ELSE 201

create_reminder(task_id, body) ==
    /\ last_id + 1 \in CreateIds
    /\ IF CreateCode(task_id, body) = 201
       THEN /\ reminders' = Insert(reminders, last_id + 1,
                                   NewReminder(task_id, body.reminder_type,
                                               body.before_minutes, body.recurrence,
                                               body.recurrence_days,
                                               CreateFire(tasks[task_id], body)))
            /\ last_id' = last_id + 1
            /\ resp' = Resp("create_reminder", last_id + 1, 201, "")
       ELSE /\ resp' = Resp("create_reminder", 0, CreateCode(task_id, body), "")
            /\ UNCHANGED <<reminders, last_id>>
    /\ UNCHANGED <<now, tasks, ticks, scheduler, runs>>

\* (mutant) acknowledge_reminder ending the recurrence as well
AcknowledgedOnce(r) ==
    [ r EXCEPT !.status = "acknowledged", !.acknowledged_at = now, !.recurrence = "" ]

\* (mutant) acknowledge_reminder without the acknowledged_at assignment
AcknowledgedUnstamped(r) == [ r EXCEPT !.status = "acknowledged" ]

\* the two assignments of acknowledge_reminder
Acknowledged(r) == [ r EXCEPT !.status = "acknowledged", !.acknowledged_at = now ]

\* (mutant) the status check left out
NotDueUnchecked(r) == FALSE

\* the status check of acknowledge_reminder and snooze_reminder
NotDue(r) == r.status # "due"

acknowledge_reminder(reminder_id) ==
    /\ IF reminder_id \notin DOMAIN reminders
       THEN /\ resp' = Resp("acknowledge", reminder_id, 404, "")
            /\ UNCHANGED reminders
       ELSE IF NotDue(reminders[reminder_id])
       THEN /\ resp' = Resp("acknowledge", reminder_id, 400, reminders[reminder_id].status)
            /\ UNCHANGED reminders
       ELSE /\ reminders' = [ reminders EXCEPT ![reminder_id] = Acknowledged(@) ]
            /\ resp' = Resp("acknowledge", reminder_id, 200, "")
    /\ UNCHANGED <<now, tasks, last_id, ticks, scheduler, runs>>

\* (mutant) snooze_reminder without the next_fire_at assignment
SnoozedKeepsFire(r, snooze_minutes) ==
    [ r EXCEPT !.status = "snoozed",
               !.snooze_until = now + snooze_minutes * Minute ]

\* the three assignments of snooze_reminder
Snoozed(r, snooze_minutes) ==
    [ r EXCEPT !.status = "snoozed",
               !.snooze_until = now + snooze_minutes * Minute,
               !.next_fire_at = now + snooze_minutes * Minute ]

snooze_reminder(reminder_id, snooze_minutes) ==
    /\ IF reminder_id \notin DOMAIN reminders
       THEN /\ resp' = Resp("snooze", reminder_id, 404, "")
            /\ UNCHANGED reminders
       ELSE IF NotDue(reminders[reminder_id])
       THEN /\ resp' = Resp("snooze", reminder_id, 400, reminders[reminder_id].status)
            /\ UNCHANGED reminders
       ELSE /\ reminders' = [ reminders EXCEPT ![reminder_id] = Snoozed(@, snooze_minutes) ]
            /\ resp' = Resp("snooze", reminder_id, 200, "")
    /\ UNCHANGED <<now, tasks, last_id, ticks, scheduler, runs>>

delete_reminder(reminder_id) ==
    /\ IF reminder_id \notin DOMAIN reminders
       THEN /\ resp' = Resp("delete_reminder", reminder_id, 404, "")
            /\ UNCHANGED reminders
       ELSE /\ reminders' = Delete(reminders, {reminder_id})
            /\ resp' = Resp("delete_reminder", reminder_id, 204, "")
    /\ UNCHANGED <<now, tasks, last_id, ticks, scheduler, runs>>

----------------------------------------------------------------------------
(* reminder_service.py: the service and its job *)

\* CronTrigger(second=0): the first fire time after t
NextFireTime(t) == (t \div Minute + 1) * Minute

\* the run _tick starts with: its session, now_utc, and step 1 done
StartedRun(rems, clock) ==
    [ pc |-> "step2", now_utc |-> clock, sess |-> Step1(rems, clock), added |-> NoRows ]

\* (a call while the scheduler is running returns at once; the life of the
\* one scheduler it creates is modelled, not stop_reminder_service and a new
\* start after it)
start_reminder_service ==
    /\ ~scheduler.running
    /\ scheduler' = [ running |-> TRUE, next_run_time |-> NextFireTime(now) ]
    /\ UNCHANGED <<now, tasks, reminders, last_id, ticks, runs, resp>>

\* print(f"[reminder_service] tick error: {exc}")
TickError == Resp("tick", 0, 500, "error")

\* (mutant) the instance limit off by one
CanSubmitOneMore(instances) == instances <= max_instances

\* the executor may start a run of the job
CanSubmit(instances) == instances < max_instances

\* the scheduler wakes for the job "reminder_tick": with coalesce the one run
\* time is the last top of a minute; it is dropped when later than
\* misfire_grace_time, skipped when max_instances runs are executing
\* (cap: the number of runs followed)
cron_fire_upto(cap) ==
    /\ scheduler.running
    /\ now >= scheduler.next_run_time
    /\ runs < cap
    /\ scheduler' = [ scheduler EXCEPT !.next_run_time = NextFireTime(now) ]
    /\ IF now - RunTime(now) <= misfire_grace_time /\ CanSubmit(Len(ticks))
       THEN /\ ticks' = Append(ticks, StartedRun(reminders, now))
            /\ runs' = runs + 1
       ELSE UNCHANGED <<ticks, runs>>
    /\ UNCHANGED <<now, tasks, reminders, last_id, resp>>

cron_fire == cron_fire_upto(MaxRuns)

\* _tick, step 2 (the except branch when compute_next_fire_at raises)
tick_step2(k) ==
    /\ ticks[k].pc = "step2"
    /\ IF Step2Raises(ticks[k].sess, reminders, tasks, now)
       THEN /\ reminders' = Rollback(ticks[k], reminders, last_id)
            /\ ticks' = Without(ticks, k)
            /\ resp' = TickError
       ELSE /\ ticks' = [ ticks EXCEPT ![k].sess = Step2(@, reminders, tasks, now),
                                       ![k].pc = "step3" ]
            /\ UNCHANGED <<reminders, resp>>
    /\ UNCHANGED <<now, tasks, last_id, scheduler, runs>>

\* _tick, step 3: _create_missed_reminders(db, now_utc)
tick_step3(k) ==
    /\ ticks[k].pc = "step3"
    /\ ticks' = [ ticks EXCEPT ![k].added = Step3(reminders, tasks, ticks[k].now_utc),
                              ![k].pc = "commit" ]
    /\ UNCHANGED <<now, tasks, reminders, last_id, scheduler, runs, resp>>

\* _tick: db.commit(), or the except branch when it raises
tick_commit(k) ==
    /\ ticks[k].pc = "commit"
    /\ \E checked \in ForeignKeysChecked :
          IF CommitRaises(ticks[k], reminders, tasks, checked)
          THEN /\ reminders' = Rollback(ticks[k], reminders, last_id)
               /\ resp' = TickError
               /\ UNCHANGED last_id
          ELSE /\ reminders' = Commit(ticks[k], reminders, last_id)
               /\ last_id' = last_id + Cardinality(DOMAIN ticks[k].added)
               /\ UNCHANGED resp
    /\ ticks' = Without(ticks, k)
    /\ UNCHANGED <<now, tasks, scheduler, runs>>

\* _tick: the store fails under a query or the commit; the except branch
tick_fail(k) ==
    /\ reminders' = Rollback(ticks[k], reminders, last_id)
    /\ ticks' = Without(ticks, k)
    /\ resp' = TickError
    /\ UNCHANGED <<now, tasks, last_id, scheduler, runs>>

----------------------------------------------------------------------------
(* The system *)

\* inputs of snooze_reminder
SnoozeInputs == {10}
\* reminder ids requests name: every id handed out so far, deleted or not
ReminderIds == 1..last_id

Next ==
    \/ \E t \in Instants : Advance(t)
    \/ \E d \in TaskDates, t \in TaskTimes : create_task(d, t)
    \/ \E i \in TaskIds : complete_task(i)
    \/ \E i \in TaskIds : uncomplete_task(i)
    \/ \E i \in TaskIds : delete_task(i)
    \/ \E i \in TaskIds, b \in Bodies : create_reminder(i, b)
    \/ \E i \in ReminderIds : acknowledge_reminder(i)
    \/ \E i \in ReminderIds, m \in SnoozeInputs : snooze_reminder(i, m)
    \/ \E i \in ReminderIds : delete_reminder(i)
    \/ start_reminder_service
    \/ cron_fire
    \/ \E k \in 1..Len(ticks) : tick_step2(k)
    \/ \E k \in 1..Len(ticks) : tick_step3(k)
    \/ \E k \in 1..Len(ticks) : tick_commit(k)
    \/ \E k \in 1..Len(ticks) : tick_fail(k)

Spec == Init /\ [][Next]_vars

----------------------------------------------------------------------------
(* The same routes and service over a week end: a task scheduled at 14:00  *)
(* local time (UTC+5:30) on a Friday or a Saturday, recurrences that skip  *)
(* days, and a clock that runs from Friday over Saturday to Monday.        *)

\* Friday, Saturday, and the Monday after
WeekDays == {4, 5, 7}

\* 89 s and 29 s before the 08:15:00 slot, and 89 s after it
WeekTimes == { <<8, 13, 31>>, <<8, 14, 31>>, <<8, 16, 29>> }

WeekInstants ==
    { d * Day + t[1] * Hour + t[2] * Minute + t[3] : d \in WeekDays, t \in WeekTimes }

WeekTaskDates == {4, 5}
WeekTaskTimes == {14 * 60}

WeekBodies ==
    { Body("before", 15, "weekdays", NoDays,                330),
      Body("exact",  0,  "custom",   <<"0", "2", "4">>,     330) }

InitWeek ==
    /\ now = CHOOSE t \in WeekInstants : \A u \in WeekInstants : t <= u
    /\ tasks = NoRows
    /\ reminders = NoRows
    /\ last_id = 0
    /\ ticks = <<>>
    /\ scheduler = [ running |-> FALSE, next_run_time |-> None ]
    /\ runs = 0
    /\ resp = Resp("init", 0, 0, "")

NextWeek ==
    \/ \E t \in WeekInstants : Advance(t)
    \/ \E d \in WeekTaskDates, t \in WeekTaskTimes : create_task(d, t)
    \/ \E i \in TaskIds : complete_task(i)
    \/ \E i \in TaskIds, b \in WeekBodies : create_reminder(i, b)
    \/ \E i \in ReminderIds : acknowledge_reminder(i)
    \/ start_reminder_service
    \/ cron_fire
    \/ \E k \in 1..Len(ticks) : tick_step2(k)
    \/ \E k \in 1..Len(ticks) : tick_step3(k)
    \/ \E k \in 1..Len(ticks) : tick_commit(k)
    \/ \E k \in 1..Len(ticks) : tick_fail(k)

SpecWeek == InitWeek /\ [][NextWeek]_vars

----------------------------------------------------------------------------
(* The calculator on its own: compute_next_fire_at called on the columns of *)
(* a stored reminder and its task, as create_reminder and _tick call it,   *)
(* at clocks before and after 09:00 local time and up to 17 days after the *)
(* task's date.                                                            *)

\* Friday, Saturday, the Monday after, and the Sundays two and three weeks on
CalcDays == {4, 5, 7, 20, 27}

\* around 09:00 local time at UTC+5:30 (03:30 UTC), at UTC (09:00) and at
\* UTC-5 (14:00 UTC), and late in the UTC day
CalcTimes == { <<3, 29, 59>>, <<3, 30, 0>>, <<8, 59, 59>>, <<9, 0, 0>>, <<14, 0, 0>>, <<20, 0, 0>> }

CalcInstants ==
    { d * Day + t[1] * Hour + t[2] * Minute + t[3] : d \in CalcDays, t \in CalcTimes }

\* the stored tasks: 14:00 on the Friday or the Saturday
CalcTaskDates == {4, 5}
CalcTaskTimes == {14 * 60}

\* tz_offset_minutes: create_reminder passes the body's, _tick passes 0
CalcOffsets == {0, 330, -300}

\* recurrence_days strings: "0,2,4", "5,6", "", "," and "x"
CalcDayLists == { <<"0", "2", "4">>, <<"5", "6">>, <<"">>, <<"", "">>, <<"x">> }

\* the configurations schemas.ReminderCreate accepts, as Body gives them
CalcConfigs ==
    { Body(ty, m, rec, NoDays, 0) : ty \in {"exact", "before"}, m \in {0, 15},
                                     rec \in {"", "daily", "weekly", "weekdays"} }
    \cup { Body(ty, 15, "custom", days, 0) : ty \in {"exact", "before"}, days \in CalcDayLists }
    \cup { Body("missed", 0, rec, NoDays, 0) : rec \in {"", "daily"} }

\* fired_at of the stored reminder: never fired, or fired on the Friday
CalcFired == {None, 4 * Day + 8 * Hour + 14 * Minute + 31}

\* the stored reminder: as created, or as it is after it fired and was
\* acknowledged (next_fire_at is not an input of the calculator)
CalcRow(c, fired) ==
    IF fired = None
    THEN NewReminder(1, c.reminder_type, c.before_minutes, c.recurrence, c.recurrence_days, 0)
    ELSE [ NewReminder(1, c.reminder_type, c.before_minutes, c.recurrence, c.recurrence_days, 0)
             EXCEPT !.status = "acknowledged", !.fire_count = 1,
                    !.fired_at = fired, !.acknowledged_at = fired ]

InitCalc ==
    /\ now = CHOOSE t \in CalcInstants : \A u \in CalcInstants : t <= u
    /\ \E d \in CalcTaskDates, t \in CalcTaskTimes : tasks = Insert(NoRows, 1, NewTask(d, t))
    /\ \E c \in CalcConfigs, f \in CalcFired : reminders = Insert(NoRows, 1, CalcRow(c, f))
    /\ last_id = 1
    /\ ticks = <<>>
    /\ scheduler = [ running |-> FALSE, next_run_time |-> None ]
    /\ runs = 0
    /\ resp = Resp("init", 0, 0, "")

\* the clock between two calls
AdvanceCalc(t) ==
    /\ t > now
    /\ now' = t
    /\ UNCHANGED <<tasks, reminders, last_id, ticks, scheduler, runs, resp>>

\* what a call returned: the row it was called on, the offset, the clock it
\* read, and the result
Returned(id, tz_offset_minutes, now_utc, result) ==
    [ op |-> "compute_next_fire_at", id |-> id, tz_offset_minutes |-> tz_offset_minutes,
      now_utc |-> now_utc, result |-> result ]

\* a call of compute_next_fire_at on row i and its task
evaluate(i, tz_offset_minutes) ==
    /\ i \in DOMAIN reminders
    /\ reminders[i].task_id \in DOMAIN tasks
    /\ resp' = Returned(i, tz_offset_minutes, now,
                        compute_next_fire_at(reminders[i].reminder_type,
                                             tasks[reminders[i].task_id].scheduled_date,
                                             tasks[reminders[i].task_id].scheduled_time,
                                             reminders[i].before_minutes, tz_offset_minutes,
                                             reminders[i].recurrence,
                                             reminders[i].recurrence_days,
                                             reminders[i].fired_at, now))
    /\ UNCHANGED <<now, tasks, reminders, last_id, ticks, scheduler, runs>>

NextCalc ==
    \/ \E t \in CalcInstants : AdvanceCalc(t)
    \/ \E i \in ReminderIds, tz \in CalcOffsets : evaluate(i, tz)

SpecCalc == InitCalc /\ [][NextCalc]_vars

----------------------------------------------------------------------------
(* The detector's window: tasks scheduled on day 0 or day 8, a clock that   *)
(* is read on days 0 and 1 and again on days 7 and 8, and a custom         *)
(* reminder with no recurrence_days, for which the search finds no day.    *)

WindowDays == {0, 1, 7, 8}

\* 31 s before 09:00:00 and 89 s after it
WindowTimes == { <<8, 59, 29>>, <<9, 1, 29>> }

WindowInstants ==
    { d * Day + t[1] * Hour + t[2] * Minute + t[3] : d \in WindowDays, t \in WindowTimes }

WindowTaskDates == {0, 8}

WindowBodies == { Body("exact", 0, "custom", NoDays, 0) }

InitWindow ==
    /\ now = CHOOSE t \in WindowInstants : \A u \in WindowInstants : t <= u
    /\ tasks = NoRows
    /\ reminders = NoRows
    /\ last_id = 0
    /\ ticks = <<>>
    /\ scheduler = [ running |-> FALSE, next_run_time |-> None ]
    /\ runs = 0
    /\ resp = Resp("init", 0, 0, "")

NextWindow ==
    \/ \E t \in WindowInstants : Advance(t)
    \/ \E d \in WindowTaskDates, t \in TaskTimes : create_task(d, t)
    \/ \E i \in TaskIds : complete_task(i)
    \/ \E i \in TaskIds : uncomplete_task(i)
    \/ \E i \in TaskIds, b \in WindowBodies : create_reminder(i, b)
    \/ \E i \in ReminderIds : acknowledge_reminder(i)
    \/ \E i \in ReminderIds, m \in SnoozeInputs : snooze_reminder(i, m)
    \/ \E i \in ReminderIds : delete_reminder(i)
    \/ start_reminder_service
    \/ cron_fire
    \/ \E k \in 1..Len(ticks) : tick_step2(k)
    \/ \E k \in 1..Len(ticks) : tick_step3(k)
    \/ \E k \in 1..Len(ticks) : tick_commit(k)
    \/ \E k \in 1..Len(ticks) : tick_fail(k)

SpecWindow == InitWindow /\ [][NextWindow]_vars

----------------------------------------------------------------------------
(* The detector over several days: one task scheduled on day 0 that stays   *)
(* overdue, no create_reminder request (every missed reminder is the       *)
(* detector's), and runs on the days 1, 2, 3 and 8.                        *)

MissedDays == {1, 2, 3, 8}

\* 31 s before 09:00:00 and 89 s after it
MissedTimes == { <<8, 59, 29>>, <<9, 1, 29>> }

MissedInstants ==
    { d * Day + t[1] * Hour + t[2] * Minute + t[3] : d \in MissedDays, t \in MissedTimes }

\* _tick runs the scheduler starts in this scenario: one to flag the task,
\* one to promote the missed reminder, one to flag the task again
MissedRuns == MaxRuns + 1

InitMissed ==
    /\ now = CHOOSE t \in MissedInstants : \A u \in MissedInstants : t <= u
    /\ tasks = NoRows
    /\ reminders = NoRows
    /\ last_id = 0
    /\ ticks = <<>>
    /\ scheduler = [ running |-> FALSE, next_run_time |-> None ]
    /\ runs = 0
    /\ resp = Resp("init", 0, 0, "")

NextMissed ==
    \/ \E t \in MissedInstants : Advance(t)
    \/ \E d \in TaskDates, t \in TaskTimes : create_task(d, t)
    \/ \E i \in TaskIds : complete_task(i)
    \/ \E i \in TaskIds : uncomplete_task(i)
    \/ \E i \in ReminderIds : acknowledge_reminder(i)
    \/ \E i \in ReminderIds, m \in SnoozeInputs : snooze_reminder(i, m)
    \/ start_reminder_service
    \/ cron_fire_upto(MissedRuns)
    \/ \E k \in 1..Len(ticks) : tick_step2(k)
    \/ \E k \in 1..Len(ticks) : tick_step3(k)
    \/ \E k \in 1..Len(ticks) : tick_commit(k)
    \/ \E k \in 1..Len(ticks) : tick_fail(k)

SpecMissed == InitMissed /\ [][NextMissed]_vars

----------------------------------------------------------------------------
(* Ticks that keep running and committing: every run ends by its commit    *)
(* before the clock is read again, the scheduler wakes for every run time  *)
(* that has come, and no request deletes a row under a run.                *)

\* Monday 31 s before the 09:00:00 slot, 89 s and 11 minutes after it, and
\* a day after it
LiveInstants ==
    { 8 * Hour + 59 * Minute + 29, 9 * Hour + 1 * Minute + 29,
      9 * Hour + 11 * Minute + 29, Day + 9 * Hour + 1 * Minute + 29 }

LastInstant == CHOOSE t \in LiveInstants : \A u \in LiveInstants : u <= t

LiveBodies ==
    { Body("exact",  0,  "",      NoDays, 0),
      Body("exact",  0,  "daily", NoDays, 0) }

\* a run starts at most once per instant read, so this cap never binds
LiveRuns == Cardinality(LiveInstants)

InitLive ==
    /\ now = CHOOSE t \in LiveInstants : \A u \in LiveInstants : t <= u
    /\ tasks = NoRows
    /\ reminders = NoRows
    /\ last_id = 0
    /\ ticks = <<>>
    /\ scheduler = [ running |-> FALSE, next_run_time |-> None ]
    /\ runs = 0
    /\ resp = Resp("init", 0, 0, "")

\* the clock is read again after the run in flight has ended
AdvanceLive(t) ==
    /\ ticks = <<>>
    /\ Advance(t)

NextLive ==
    \/ \E t \in LiveInstants : AdvanceLive(t)
    \/ \E d \in TaskDates, t \in TaskTimes : create_task(d, t)
    \/ \E i \in TaskIds : complete_task(i)
    \/ \E i \in TaskIds, b \in LiveBodies : create_reminder(i, b)
    \/ \E i \in ReminderIds : acknowledge_reminder(i)
    \/ \E i \in ReminderIds, m \in SnoozeInputs : snooze_reminder(i, m)
    \/ start_reminder_service
    \/ cron_fire_upto(LiveRuns)
    \/ \E k \in 1..Len(ticks) : tick_step2(k)
    \/ \E k \in 1..Len(ticks) : tick_step3(k)
    \/ \E k \in 1..Len(ticks) : tick_commit(k)

\* the clock moves on, the scheduler wakes when a run time has come, and a
\* run that has started goes through its steps to its commit
Fairness ==
    /\ WF_vars(\E t \in LiveInstants : AdvanceLive(t))
    /\ WF_vars(cron_fire_upto(LiveRuns))
    /\ WF_vars(\E k \in 1..Len(ticks) : tick_step2(k))
    /\ WF_vars(\E k \in 1..Len(ticks) : tick_step3(k))
    /\ WF_vars(\E k \in 1..Len(ticks) : tick_commit(k))

SpecLive == InitLive /\ [][NextLive]_vars /\ Fairness

----------------------------------------------------------------------------
(* Properties *)

\* reminder rows present before and after a step
Kept2 == DOMAIN reminders \cap DOMAIN reminders'

\* a step starts a run of _tick; NewRun is that run
RunStarts == Len(ticks') = Len(ticks) + 1
NewRun == ticks'[Len(ticks')]

\* a step ends a run of _tick
RunEnds == Len(ticks') < Len(ticks)

\* row i is "pending" or "snoozed" before the step and "due" after it
Promoted(i) ==
    /\ reminders[i].status \in {"pending", "snoozed"}
    /\ reminders'[i].status = "due"

\* C1: every reminder's status is one of pending, due, acknowledged, snoozed,
\* and a status changes only along pending->due, snoozed->due and
\* acknowledged->pending, each at the end of a tick run, and due->acknowledged
\* and due->snoozed, each in the answered acknowledge / snooze request.
C1_StatusEdges ==
    [][ /\ \A i \in DOMAIN reminders' :
              reminders'[i].status \in {"pending", "due", "acknowledged", "snoozed"}
        /\ \A i \in Kept2 :
              reminders'[i].status # reminders[i].status =>
                 LET edge == <<reminders[i].status, reminders'[i].status>>
                 IN  \/ /\ edge \in { <<"pending", "due">>, <<"snoozed", "due">>,
                                      <<"acknowledged", "pending">> }
                        /\ RunEnds
                     \/ /\ edge = <<"due", "acknowledged">>
                        /\ ticks' = ticks
                        /\ resp' = Resp("acknowledge", i, 200, "")
                     \/ /\ edge = <<"due", "snoozed">>
                        /\ ticks' = ticks
                        /\ resp' = Resp("snooze", i, 200, "")
      ]_vars

\* C1 witness: a reminder that fired and is pending again (it went
\* pending -> due -> acknowledged -> pending)
C1_Witness ==
    \E i \in DOMAIN reminders :
        reminders[i].status = "pending" /\ reminders[i].fire_count >= 1

\* C2: a tick never promotes a pending or snoozed reminder whose next_fire_at
\* is more than 90 s before the tick's instant.
C2_NoLatePromotion ==
    [][ \A i \in Kept2 :
           Promoted(i) => reminders'[i].fired_at - 90 <= reminders[i].next_fire_at
      ]_vars

C4_RejectNotDue ==
    [][ ( /\ resp' # resp
          /\ resp'.op \in {"acknowledge", "snooze"}
          /\ resp'.id \in DOMAIN reminders
          /\ reminders[resp'.id].status # "due" ) =>
        ( /\ resp'.code = 400
          /\ resp'.detail = reminders[resp'.id].status
          /\ reminders' = reminders
          /\ tasks' = tasks
          /\ last_id' = last_id )
      ]_vars

\* C4 witness: a snooze request on a snoozed reminder was answered 400
C4_Witness ==
    /\ resp.op = "snooze"
    /\ resp.code = 400
    /\ resp.detail = "snoozed"
    /\ resp.id \in DOMAIN reminders
    /\ reminders[resp.id].status = "snoozed"

\* C5: snoozing a due reminder for d minutes at instant t sets status
\* "snoozed", snooze_until = t + d and next_fire_at = snooze_until; no tick
\* promotes it before snooze_until; a run started at or after snooze_until
\* flips it to "due" with fire_count one higher.
C5_SnoozeThenTick ==
    [][ /\ \A i \in Kept2 :
              (reminders[i].status = "due" /\ reminders'[i].status = "snoozed") =>
                 /\ \E d \in {5, 10, 30, 60} : reminders'[i].snooze_until = now + d * 60
                 /\ reminders'[i].next_fire_at = reminders'[i].snooze_until
        /\ \A i \in Kept2 :
              (reminders[i].status = "snoozed" /\ reminders'[i].status = "due") =>
                 /\ reminders'[i].fired_at >= reminders[i].snooze_until
                 /\ reminders'[i].fire_count = reminders[i].fire_count + 1
        /\ RunStarts =>
              \A i \in DOMAIN reminders :
                 (reminders[i].status = "snoozed" /\ now >= reminders[i].snooze_until) =>
                    /\ i \in DOMAIN NewRun.sess
                    /\ NewRun.sess[i].obj.status = "due"
                    /\ NewRun.sess[i].obj.fire_count = reminders[i].fire_count + 1
      ]_vars

\* C6: a one-shot reminder (recurrence empty) that is acknowledged is, after
\* any step that keeps the row, still acknowledged.
C6_OneShotStaysAcknowledged ==
    [][ \A i \in Kept2 :
           (reminders[i].status = "acknowledged" /\ reminders[i].recurrence = "") =>
              reminders'[i].status = "acknowledged"
      ]_vars

\* C6 witness: a one-shot reminder is acknowledged and a run of _tick that
\* started after the acknowledgement is past its re-arm step
C6_Witness ==
    \E i \in DOMAIN reminders, k \in 1..Len(ticks) :
        /\ reminders[i].status = "acknowledged"
        /\ reminders[i].recurrence = ""
        /\ ticks[k].pc = "commit"
        /\ ticks[k].now_utc > reminders[i].acknowledged_at

\* the tz_offset_minutes values create_reminder is called with
TzInputs == { b.tz_offset_minutes : b \in Bodies }

\* the task's scheduled instant in UTC minus before_minutes
FireInstant(t, tz, before_minutes) ==
    t.scheduled_date * 86400 + t.scheduled_time * 60 - tz * 60 - before_minutes * 60

\* the one-shot exact/before bodies among the request bodies
OneShotBodies ==
    { b \in Bodies : b.reminder_type \in {"exact", "before"} /\ b.recurrence = "" }

\* C7: a one-shot exact/before reminder is persisted by create_reminder only
\* with status pending and next_fire_at equal to its fire instant, strictly
\* after now; a request whose fire instant is not after now is answered 400;
\* and a create request answered with an error persists no reminder.
C7_OneShotCreate ==
    [][ /\ \A i \in DOMAIN reminders' \ DOMAIN reminders :
              (reminders'[i].reminder_type \in {"exact", "before"}
                 /\ reminders'[i].recurrence = "") =>
                 /\ reminders'[i].status = "pending"
                 /\ reminders'[i].next_fire_at > now
                 /\ \E tz \in TzInputs :
                       reminders'[i].next_fire_at =
                          FireInstant(tasks[reminders'[i].task_id], tz, reminders'[i].before_minutes)
        /\ \A u \in DOMAIN tasks, b \in OneShotBodies :
              ( /\ ~tasks[u].is_completed
                /\ FireInstant(tasks[u], b.tz_offset_minutes, b.before_minutes) <= now ) =>
              CreateCode(u, b) = 400
        /\ (resp' # resp /\ resp'.op = "create_reminder" /\ resp'.code # 201) =>
              (reminders' = reminders /\ last_id' = last_id)
      ]_vars

\* C7 witness: a create request on an open task whose slot has passed was
\* answered 400 and no reminder was ever persisted
C7_Witness ==
    /\ resp.op = "create_reminder"
    /\ resp.code = 400
    /\ last_id = 0
    /\ \E u \in DOMAIN tasks :
          ~tasks[u].is_completed /\ FireInstant(tasks[u], 0, 0) <= now

\* the id counter after a run that left the reminders rems
LastIdAfter(rems, last) ==
    CHOOSE m \in DOMAIN rems \cup {last} : \A j \in DOMAIN rems \cup {last} : j <= m

\* C8: with no run in flight, a second _tick right after a first at the same
\* instant leaves the reminders as the first left them.
C8_TickIdempotent ==
    ticks = <<>> =>
       LET once  == FullTick(reminders, tasks, last_id, now)
           twice == FullTick(once, tasks, LastIdAfter(once, last_id), now)
       IN  twice = once

\* every change the run holds is in the tables after the step: each changed
\* column of each loaded row, and each added row under a fresh id
AllApplied(run) ==
    /\ \A i \in DOMAIN run.sess :
          /\ i \in Kept2
          /\ \A f \in DOMAIN reminders[i] :
                reminders'[i][f] = IF f \in run.sess[i].dirty THEN run.sess[i].obj[f]
                                   ELSE reminders[i][f]
    /\ \A i \in Kept2 \ DOMAIN run.sess : reminders'[i] = reminders[i]
    /\ DOMAIN reminders \subseteq DOMAIN reminders'
    /\ Cardinality(DOMAIN reminders' \ DOMAIN reminders) = Cardinality(DOMAIN run.added)
    /\ \A t \in DOMAIN run.added :
          \E i \in DOMAIN reminders' \ DOMAIN reminders : reminders'[i] = run.added[t]

\* C9: a step of a run that does not end it changes no reminder; the step
\* that ends a run either applies every change the run holds, at its commit,
\* or leaves the reminders exactly as they were; a run that ends through the
\* except branch leaves them as they were.
C9_TickAtomic ==
    [][ /\ (ticks' # ticks /\ ~RunEnds) => reminders' = reminders
        /\ RunEnds =>
              \E k \in 1..Len(ticks) :
                 /\ ticks' = Without(ticks, k)
                 /\ \/ reminders' = reminders /\ last_id' = last_id
                    \/ /\ ticks[k].pc = "commit"
                       /\ AllApplied(ticks[k])
                       /\ resp' = resp
        /\ (RunEnds /\ resp' # resp) => (resp' = TickError /\ reminders' = reminders)
      ]_vars

\* C9 witness: the only run so far ended through the except branch, and a
\* reminder whose next_fire_at had passed before it is still pending and has
\* never fired
C9_Witness ==
    /\ resp = TickError
    /\ ticks = <<>>
    /\ runs = 1
    /\ scheduler.next_run_time > now
    /\ \E i \in DOMAIN reminders :
          /\ reminders[i].status = "pending"
          /\ reminders[i].next_fire_at < RunTime(now)
          /\ reminders[i].fire_count = 0

SessionFresh ==
    \A k \in 1..Len(ticks) :
       \A i \in DOMAIN ticks[k].sess \cap DOMAIN reminders :
          LET e == ticks[k].sess[i]
              r == reminders[i]
          IN  /\ \A f \in DOMAIN r \ e.dirty : e.obj[f] = r[f]
              /\ IF "next_fire_at" \in e.dirty THEN r.status = "acknowledged"
                 ELSE r.status \in {"pending", "snoozed"}

\* C11: while a run of _tick is between its reads and its commit, a request
\* changes a reminder only if the table holds it as "due", and no row a run
\* has loaded is changed under it: the run's commit writes over nothing a
\* request committed after the run read the row.
C11_NoLostUpdate ==
    [][ /\ SessionFresh'
        /\ \A i \in Kept2 :
              (reminders'[i] # reminders[i] /\ ~RunEnds) =>
                 /\ reminders[i].status = "due"
                 /\ \A k \in 1..Len(ticks) : i \notin DOMAIN ticks[k].sess
      ]_vars

\* C11 witness: an acknowledge was accepted while a run that started before
\* it has not committed yet
C11_Witness ==
    \E k \in 1..Len(ticks), i \in DOMAIN reminders :
        /\ reminders[i].status = "acknowledged"
        /\ reminders[i].acknowledged_at > ticks[k].now_utc
        /\ resp = Resp("acknowledge", i, 200, "")

\* row i gets its next_fire_at from the calculator in this step: it is
\* created pending, or re-armed from acknowledged to pending
Armed(i) ==
    /\ i \in DOMAIN reminders'
    /\ reminders'[i].status = "pending"
    /\ i \in DOMAIN reminders => reminders[i].status = "acknowledged"

\* Monday is 0
WeekdayOf(t) == (t \div 86400) % 7

\* C12: no next_fire_at given to a weekdays reminder, at creation or at a
\* re-arm, falls on Saturday or Sunday, and none given to a custom reminder
\* with days "0,2,4" falls on a day other than Monday, Wednesday, Friday.
C12_RecurrenceDays ==
    [][ \A i \in DOMAIN reminders' :
           Armed(i) =>
              /\ reminders'[i].recurrence = "weekdays" =>
                    WeekdayOf(reminders'[i].next_fire_at) \in 0..4
              /\ (reminders'[i].recurrence = "custom"
                    /\ reminders'[i].recurrence_days = <<"0", "2", "4">>) =>
                    WeekdayOf(reminders'[i].next_fire_at) \in {0, 2, 4}
      ]_vars

\* Friday 08:15:00 UTC: 14:00 local at UTC+5:30, minus 15 minutes
Friday0815 == 4 * 86400 + 8 * 3600 + 15 * 60

\* row i is the scenario's reminder: before, 15 minutes, weekdays, on a task
\* scheduled on the Friday at 14:00
OnFridayTask(r) ==
    /\ r.reminder_type = "before"
    /\ r.before_minutes = 15
    /\ r.recurrence = "weekdays"
    /\ r.task_id \in DOMAIN tasks
    /\ tasks[r.task_id].scheduled_date = 4
    /\ tasks[r.task_id].scheduled_time = 14 * 60

\* C13: the reminder {before, 15, weekdays} created with offset +330 before
\* Friday 08:15 UTC on a task scheduled Friday 14:00 gets next_fire_at Friday
\* 08:15:00 UTC; its re-arm, when committed on Friday or Saturday, sets
\* next_fire_at on the Monday after, and no re-arm sets it on a Saturday or
\* a Sunday.
C13_FridayToMonday ==
    [][ \A i \in DOMAIN reminders' :
           (Armed(i) /\ OnFridayTask(reminders'[i])) =>
              /\ (i \notin DOMAIN reminders /\ now < Friday0815) =>
                    reminders'[i].next_fire_at = Friday0815
              /\ i \in DOMAIN reminders =>
                    /\ WeekdayOf(reminders'[i].next_fire_at) \in 0..4
                    /\ now \div 86400 <= 5 => reminders'[i].next_fire_at \div 86400 = 7
      ]_vars

\* C13 witness: the scenario's reminder fired on the Friday, was acknowledged
\* and is armed again for the Monday after
C13_Witness ==
    \E i \in DOMAIN reminders :
        /\ OnFridayTask(reminders[i])
        /\ reminders[i].status = "pending"
        /\ reminders[i].fire_count = 1
        /\ reminders[i].fired_at \div 86400 = 4
        /\ reminders[i].fired_at < Friday0815
        /\ reminders[i].next_fire_at \div 86400 = 7

\* run k re-arms row i in its session in this step
RearmedInSession(k, i) ==
    /\ Len(ticks') = Len(ticks)
    /\ i \in DOMAIN ticks'[k].sess
    /\ "next_fire_at" \in ticks'[k].sess[i].dirty
    /\ i \in DOMAIN ticks[k].sess => "next_fire_at" \notin ticks[k].sess[i].dirty

\* row i goes from acknowledged to pending in the table in this step
RearmedInTable(i) ==
    /\ reminders[i].status = "acknowledged"
    /\ reminders'[i].status = "pending"

\* C14: the next_fire_at a re-arm computes is later than the clock at the
\* computation, later than the reminder's fired_at and later than the
\* next_fire_at it had; so is the one the run's commit writes, which is also
\* later than the run's now_utc.
C14_RearmLater ==
    [][ /\ \A k \in 1..Len(ticks), i \in DOMAIN reminders :
              RearmedInSession(k, i) =>
                 /\ ticks'[k].sess[i].obj.next_fire_at > now
                 /\ ticks'[k].sess[i].obj.next_fire_at > reminders[i].fired_at
                 /\ ticks'[k].sess[i].obj.next_fire_at > reminders[i].next_fire_at
        /\ \A i \in Kept2 :
              RearmedInTable(i) =>
                 /\ reminders'[i].next_fire_at > reminders[i].fired_at
                 /\ reminders'[i].next_fire_at > reminders[i].next_fire_at
                 /\ \E k \in 1..Len(ticks) :
                       ticks' = Without(ticks, k)
                         /\ reminders'[i].next_fire_at > ticks[k].now_utc
      ]_vars

\* C14 witness: a daily reminder that fired, was acknowledged and is armed
\* again for a later instant
C14_Witness ==
    \E i \in DOMAIN reminders :
        /\ reminders[i].recurrence = "daily"
        /\ reminders[i].status = "pending"
        /\ reminders[i].fire_count >= 1
        /\ reminders[i].next_fire_at > reminders[i].fired_at

\* the distance of instant t from row r's initial fire instant (the task's
\* scheduled instant minus before_minutes) is a whole multiple of step
OnSchedule(r, t, step) ==
    \E tz \in TzInputs :
        (t - FireInstant(tasks[r.task_id], tz, r.before_minutes)) % step = 0

\* C15: every next_fire_at a re-arm gives a daily reminder is a whole number
\* of days from its initial fire instant, and every one it gives a weekly
\* reminder a whole multiple of 7 days.
C15_SameTimeOfDay ==
    [][ \A i \in Kept2 :
           (RearmedInTable(i) /\ reminders[i].task_id \in DOMAIN tasks) =>
              /\ reminders[i].recurrence = "daily" =>
                    OnSchedule(reminders[i], reminders'[i].next_fire_at, 86400)
              /\ reminders[i].recurrence = "weekly" =>
                    OnSchedule(reminders[i], reminders'[i].next_fire_at, 7 * 86400)
      ]_vars

\* task u has a missed reminder that is pending, due or snoozed
HasActiveMissed(u) ==
    \E i \in DOMAIN reminders :
        /\ reminders[i].task_id = u
        /\ reminders[i].reminder_type = "missed"
        /\ reminders[i].status \in {"pending", "due", "snoozed"}

\* r is a fresh missed reminder of task u, to fire at 09:00 UTC on the day
\* after day number today
FreshMissed(r, u, today) ==
    /\ r.task_id = u
    /\ r.reminder_type = "missed"
    /\ r.status = "pending"
    /\ r.fire_count = 0
    /\ r.next_fire_at = (today + 1) * 86400 + 9 * 3600

\* C16: the detector of a run with UTC date today adds one missed reminder,
\* pending and to fire at 09:00 UTC on day today + 1, for each incomplete
\* task scheduled 1 to 7 days before today that has no pending, due or
\* snoozed missed reminder, and none for a task that has one; the run's
\* commit inserts each added reminder exactly once.
C16_MissedOnce ==
    [][ /\ \A k \in 1..Len(ticks) :
              (Len(ticks') = Len(ticks) /\ ticks[k].pc = "step3" /\ ticks'[k].pc = "commit") =>
                 LET today == ticks[k].now_utc \div 86400
                 IN  \A u \in DOMAIN tasks :
                        /\ ( /\ ~tasks[u].is_completed
                             /\ tasks[u].scheduled_date \in (today - 7)..(today - 1)
                             /\ ~HasActiveMissed(u) ) =>
                              /\ u \in DOMAIN ticks'[k].added
                              /\ FreshMissed(ticks'[k].added[u], u, today)
                        /\ HasActiveMissed(u) => u \notin DOMAIN ticks'[k].added
        /\ \A k \in 1..Len(ticks) :
              (ticks' = Without(ticks, k) /\ DOMAIN reminders' # DOMAIN reminders) =>
                 \A u \in TaskIds :
                    Cardinality({ i \in DOMAIN reminders' \ DOMAIN reminders :
                                     reminders'[i].task_id = u }) =
                       IF u \in DOMAIN ticks[k].added THEN 1 ELSE 0
      ]_vars

\* C16 witness: on the Monday, three days after the task's Friday, the task
\* is incomplete and has its one missed reminder, pending for Tuesday 09:00,
\* and a later run's detector has added nothing
C16_Witness ==
    \E k \in 1..Len(ticks), u \in DOMAIN tasks :
        /\ ticks[k].pc = "commit"
        /\ ticks[k].added = NoRows
        /\ ticks[k].now_utc \div 86400 = 7
        /\ tasks[u].scheduled_date = 4
        /\ ~tasks[u].is_completed
        /\ Cardinality({ i \in DOMAIN reminders : reminders[i].reminder_type = "missed" }) = 1
        /\ \E i \in DOMAIN reminders : FreshMissed(reminders[i], u, 7)

\* C17: the first missed reminder the detector creates for a task scheduled
\* on day D has its next_fire_at on day D + 1.
C17_MissedNextDay ==
    [][ RunEnds =>
           \A i \in DOMAIN reminders' \ DOMAIN reminders :
              ( /\ reminders'[i].reminder_type = "missed"
                /\ reminders'[i].task_id \in DOMAIN tasks
                /\ ~\E j \in DOMAIN reminders :
                       /\ reminders[j].task_id = reminders'[i].task_id
                       /\ reminders[j].reminder_type = "missed" ) =>
              reminders'[i].next_fire_at \div 86400 =
                 tasks[reminders'[i].task_id].scheduled_date + 1
      ]_vars

\* C18: fire_count goes up by exactly 1 when a reminder goes from pending or
\* snoozed to due, and is the same after every other step (acknowledge,
\* snooze, re-arm, a rejected request, a failed run); a new reminder starts
\* at 0.
C18_FireCount ==
    [][ /\ \A i \in Kept2 :
              reminders'[i].fire_count =
                 IF Promoted(i) THEN reminders[i].fire_count + 1
                 ELSE reminders[i].fire_count
        /\ \A i \in DOMAIN reminders' \ DOMAIN reminders : reminders'[i].fire_count = 0
      ]_vars

\* C18 witness: a reminder that became due twice (snoozed in between) and
\* was then acknowledged
C18_Witness ==
    \E i \in DOMAIN reminders :
        /\ reminders[i].fire_count = 2
        /\ reminders[i].status = "acknowledged"
        /\ reminders[i].snooze_until # None

\* C19: a snoozed reminder has snooze_until set and next_fire_at equal to it.
C19_SnoozedFields ==
    \A i \in DOMAIN reminders :
        reminders[i].status = "snoozed" =>
           /\ reminders[i].snooze_until # None
           /\ reminders[i].next_fire_at = reminders[i].snooze_until

\* C19 witness: a snoozed reminder while a run that started after the snooze
\* is executing
C19_Witness ==
    \E i \in DOMAIN reminders, k \in 1..Len(ticks) :
        /\ reminders[i].status = "snoozed"
        /\ ticks[k].now_utc > reminders[i].fired_at
        /\ ticks[k].pc = "commit"

\* C20: a reminder that is pending, due or acknowledged has no snooze_until.
C20_SnoozeUntilOnlyWhileSnoozed ==
    \A i \in DOMAIN reminders :
        reminders[i].status \in {"pending", "due", "acknowledged"} =>
           reminders[i].snooze_until = None

\* C21: every reminder row references a task row that exists.
C21_ReminderHasTask ==
    \A i \in DOMAIN reminders : reminders[i].task_id \in DOMAIN tasks

\* the last step was a call of compute_next_fire_at
Called == resp.op = "compute_next_fire_at"

DoesStep2(k) ==
    /\ Len(ticks') = Len(ticks)
    /\ ticks[k].pc = "step2"
    /\ ticks'[k].pc = "step3"

\* row r is acknowledged and recurring, and its task is there and open
Rearmable(r) ==
    /\ r.status = "acknowledged"
    /\ r.recurrence # ""
    /\ r.task_id \in DOMAIN tasks
    /\ ~tasks[r.task_id].is_completed

\* what the calculator yields for row r at the clock, called with the
\* reminder's fired_at as last_fired_at and offset 0
Yield(r) ==
    compute_next_fire_at(r.reminder_type, tasks[r.task_id].scheduled_date,
                         tasks[r.task_id].scheduled_time, r.before_minutes, 0,
                         r.recurrence, r.recurrence_days, r.fired_at, now)

\* C23: when step 2 of a run finds an acknowledged recurring reminder whose
\* task is open and the calculator yields an instant, the run holds the
\* reminder with status pending, next_fire_at that instant, acknowledged_at
\* null and every other column as stored; the run's commit writes exactly
\* these three columns, and fired_at and fire_count stay as they were.
C23_RearmEffect ==
    [][ /\ \A k \in 1..Len(ticks) :
              DoesStep2(k) =>
                 \A i \in DOMAIN reminders :
                    (Rearmable(reminders[i]) /\ Yield(reminders[i]) >= 0) =>
                       /\ i \in DOMAIN ticks'[k].sess
                       /\ ticks'[k].sess[i].obj =
                             [ reminders[i] EXCEPT !.status = "pending",
                                                   !.next_fire_at = Yield(reminders[i]),
                                                   !.acknowledged_at = -1 ]
        /\ \A i \in Kept2 :
              RearmedInTable(i) =>
                 \E k \in 1..Len(ticks) :
                    /\ ticks' = Without(ticks, k)
                    /\ i \in DOMAIN ticks[k].sess
                    /\ reminders'[i] =
                          [ reminders[i] EXCEPT !.status = "pending",
                                                !.next_fire_at = ticks[k].sess[i].obj.next_fire_at,
                                                !.acknowledged_at = -1 ]
                    /\ reminders'[i].fired_at = reminders[i].fired_at
                    /\ reminders'[i].fire_count = reminders[i].fire_count
      ]_vars

\* C23 witness: a run past its step 2 holds a re-armed reminder that the
\* table still has as acknowledged
C23_Witness ==
    \E k \in 1..Len(ticks), i \in DOMAIN reminders :
        /\ ticks[k].pc = "commit"
        /\ i \in DOMAIN ticks[k].sess
        /\ ticks[k].sess[i].obj.status = "pending"
        /\ ticks[k].sess[i].obj.acknowledged_at = -1
        /\ reminders[i].status = "acknowledged"
        /\ reminders[i].acknowledged_at >= 0
        /\ ticks[k].sess[i].obj.fire_count = 1

\* the task of row r is completed
TaskCompleted(r) == r.task_id \in DOMAIN tasks /\ tasks[r.task_id].is_completed

\* C24: step 2 of a run does not touch an acknowledged recurring reminder
\* whose task is completed or for which the calculator yields none, and no
\* step changes an acknowledged recurring reminder whose task is completed
\* before and after the step.
C24_InertWhileCompleted ==
    [][ /\ \A k \in 1..Len(ticks) :
              DoesStep2(k) =>
                 \A i \in DOMAIN reminders :
                    ( /\ reminders[i].status = "acknowledged"
                      /\ reminders[i].recurrence # ""
                      /\ reminders[i].task_id \in DOMAIN tasks
                      /\ \/ tasks[reminders[i].task_id].is_completed
                         \/ Yield(reminders[i]) = -1 ) =>
                       i \notin DOMAIN ticks'[k].sess
        /\ \A i \in Kept2 :
              ( /\ reminders[i].status = "acknowledged"
                /\ reminders[i].recurrence # ""
                /\ TaskCompleted(reminders[i])
                /\ TaskCompleted(reminders[i])' ) =>
                 reminders'[i] = reminders[i]
      ]_vars

\* the task's scheduled local date and time as a UTC instant
ScheduledUtc(t, tz) == t.scheduled_date * 86400 + t.scheduled_time * 60 - tz * 60

\* C25: a call for a one-shot reminder of type exact returns the task's
\* scheduled instant in UTC when that is after now and none otherwise,
\* whatever before_minutes is; a call for one of type before returns the
\* scheduled instant minus before_minutes, or none.
C25_ExactIgnoresBefore ==
    Called =>
       LET r == reminders[resp.id]
           at == ScheduledUtc(tasks[r.task_id], resp.tz_offset_minutes)
       IN  /\ (r.reminder_type = "exact" /\ r.recurrence = "") =>
                 resp.result = IF at > resp.now_utc THEN at ELSE -1
           /\ (r.reminder_type = "before" /\ r.recurrence = "") =>
                 resp.result = IF at - r.before_minutes * 60 > resp.now_utc
                               THEN at - r.before_minutes * 60 ELSE -1

\* instant t on the local clock of offset tz, and its local calendar day
LocalTime(t, tz) == t + tz * 60
LocalDay(t, tz) == LocalTime(t, tz) \div 86400

\* C26: a call for a reminder of type missed returns an instant that is
\* 09:00:00 on the local clock, strictly after now, and on the local calendar
\* day after the local day of now.
C26_MissedTomorrow ==
    (Called /\ reminders[resp.id].reminder_type = "missed") =>
       /\ LocalTime(resp.result, resp.tz_offset_minutes) % 86400 = 9 * 3600
       /\ resp.result > resp.now_utc
       /\ LocalDay(resp.result, resp.tz_offset_minutes)
             = LocalDay(resp.now_utc, resp.tz_offset_minutes) + 1

\* run k runs the detector in this step
DoesStep3(k) ==
    /\ Len(ticks') = Len(ticks)
    /\ ticks[k].pc = "step3"
    /\ ticks'[k].pc = "commit"

\* C27: the detector of a run with UTC date today adds a missed reminder
\* only for a task that is not completed and is scheduled at least 1 and at
\* most 7 days before today: none for a completed task, none for a task
\* scheduled today or later, none for one scheduled 8 or more days before;
\* an open task scheduled exactly 7 days before today with no active missed
\* reminder gets one.
C27_DetectorWindow ==
    [][ \A k \in 1..Len(ticks) :
           DoesStep3(k) =>
              LET today == ticks[k].now_utc \div 86400
              IN  /\ \A u \in DOMAIN ticks'[k].added :
                        /\ u \in DOMAIN tasks
                        /\ ~tasks[u].is_completed
                        /\ tasks[u].scheduled_date < today
                        /\ tasks[u].scheduled_date >= today - 7
                        /\ ticks'[k].added[u].task_id = u
                        /\ ticks'[k].added[u].reminder_type = "missed"
                  /\ \A u \in DOMAIN tasks :
                        ( /\ ~tasks[u].is_completed
                          /\ tasks[u].scheduled_date = today - 7
                          /\ ~HasActiveMissed(u) ) =>
                           u \in DOMAIN ticks'[k].added
      ]_vars

\* C27 witness: on day 8 the detector has run and added nothing, while the
\* task scheduled on day 0 is open and has no missed reminder at all
C27_Witness ==
    \E k \in 1..Len(ticks), u \in DOMAIN tasks :
        /\ ticks[k].pc = "commit"
        /\ ticks[k].now_utc \div 86400 = 8
        /\ ticks[k].added = NoRows
        /\ tasks[u].scheduled_date = 0
        /\ ~tasks[u].is_completed
        /\ reminders = NoRows

\* the columns of a reminder set at creation, and those the core assigns
ConfigFields == {"task_id", "reminder_type", "before_minutes", "recurrence", "recurrence_days"}
StateFields == {"status", "next_fire_at", "snooze_until", "fire_count", "fired_at", "acknowledged_at"}

\* the step is a step of a _tick run, or an acknowledge or snooze request
CoreStep ==
    \/ ticks' # ticks
    \/ resp' # resp /\ resp'.op \in {"acknowledge", "snooze", "tick"}

\* C28: a step of a tick, an acknowledge and a snooze change no task and no
\* configuration column (task_id, reminder_type, before_minutes, recurrence,
\* recurrence_days) of any reminder, and delete no reminder; a run assigns
\* only to status, next_fire_at, snooze_until, fire_count, fired_at and
\* acknowledged_at.
C28_ConfigFrame ==
    [][ /\ CoreStep =>
              /\ tasks' = tasks
              /\ DOMAIN reminders \subseteq DOMAIN reminders'
              /\ \A i \in DOMAIN reminders :
                    \A f \in ConfigFields : reminders'[i][f] = reminders[i][f]
        /\ \A k \in 1..Len(ticks') : \A i \in DOMAIN ticks'[k].sess :
              /\ ticks'[k].sess[i].dirty \subseteq StateFields
              /\ i \in DOMAIN reminders' =>
                    \A f \in ConfigFields : ticks'[k].sess[i].obj[f] = reminders'[i][f]
      ]_vars

\* C28 witness: the weekdays reminder, 10 minutes before, has been promoted,
\* acknowledged and re-armed, and its task is as created
C28_Witness ==
    \E i \in DOMAIN reminders :
        /\ reminders[i].status = "pending"
        /\ reminders[i].fire_count = 1
        /\ reminders[i].reminder_type = "before"
        /\ reminders[i].before_minutes = 10
        /\ reminders[i].recurrence = "weekdays"
        /\ reminders[i].task_id \in DOMAIN tasks
        /\ tasks[reminders[i].task_id] = NewTask(0, 9 * 60)

\* C29: a reminder whose next_fire_at is null is one-shot and has
\* fire_count 0; a recurring reminder has a next_fire_at; no run loads a
\* reminder whose next_fire_at is null in its step 1, and none is promoted.
C29_NullNextFire ==
    [][ /\ \A i \in DOMAIN reminders' :
              /\ reminders'[i].next_fire_at = -1 =>
                    (reminders'[i].recurrence = "" /\ reminders'[i].fire_count = 0)
              /\ reminders'[i].recurrence # "" => reminders'[i].next_fire_at # -1
        /\ RunStarts =>
              \A i \in DOMAIN reminders :
                 reminders[i].next_fire_at = -1 => i \notin DOMAIN NewRun.sess
        /\ \A i \in Kept2 : Promoted(i) => reminders[i].next_fire_at # -1
      ]_vars

\* C29 witness: a custom reminder with no recurrence_days is acknowledged, a
\* run that started after the acknowledgement is past its step 2 without
\* having re-armed it (the calculator yielded none), and the reminder has
\* the next_fire_at it fired at
C29_Witness ==
    \E i \in DOMAIN reminders, k \in 1..Len(ticks) :
        /\ reminders[i].recurrence = "custom"
        /\ reminders[i].recurrence_days = <<>>
        /\ reminders[i].status = "acknowledged"
        /\ reminders[i].task_id \in DOMAIN tasks
        /\ ~tasks[reminders[i].task_id].is_completed
        /\ ticks[k].pc = "commit"
        /\ ticks[k].now_utc >= reminders[i].acknowledged_at
        /\ i \notin DOMAIN ticks[k].sess
        /\ reminders[i].next_fire_at >= 0

\* the weekday indices a recurrence_days list names, and those of weekdays
DigitNames == <<"0", "1", "2", "3", "4", "5", "6">>
NamedDays(days) == { d \in 0..6 : \E j \in 1..Len(days) : days[j] = DigitNames[d + 1] }
AcceptedDays(r) == IF r.recurrence = "weekdays" THEN 0..4 ELSE NamedDays(r.recurrence_days)

\* every token of the list is blank or names a weekday index
DaysReadable(days) ==
    \A j \in 1..Len(days) : days[j] \in {"", " "} \/ \E d \in 1..7 : days[j] = DigitNames[d]

\* the least element of a non-empty set of instants
Earliest(S) == CHOOSE x \in S : \A y \in S : x <= y

\* C30: for a recurring exact/before reminder whose first fire is not
\* returned as it is, the call returns: for daily and weekly, the first
\* instant strictly after now among cursor, cursor + step, cursor + 2 step,
\* ...; for weekdays and custom with a readable day list, the earliest of
\* the 14 days cursor + 1 day, ..., cursor + 14 days that is on an accepted
\* weekday and strictly after now, and none when there is no such day (now
\* is 14 days or more past the cursor, or the day list names no day).
C30_SearchBounded ==
    Called =>
       LET r == reminders[resp.id]
           n == resp.now_utc
           fire == ScheduledUtc(tasks[r.task_id], resp.tz_offset_minutes) - r.before_minutes * 60
           cursor == IF r.fired_at # -1 THEN r.fired_at ELSE fire
           step == IF r.recurrence = "weekly" THEN 7 * 86400 ELSE 86400
           probed == { cursor + k * 86400 : k \in 1..14 }
           hits == { c \in probed : WeekdayOf(c) \in AcceptedDays(r) /\ c > n }
       IN  ( /\ r.reminder_type \in {"exact", "before"}
             /\ r.recurrence # ""
             /\ r.fired_at # -1 \/ fire <= n ) =>
           /\ r.recurrence \in {"daily", "weekly"} =>
                 /\ resp.result > n
                 /\ resp.result >= cursor
                 /\ (resp.result - cursor) % step = 0
                 /\ resp.result = cursor \/ resp.result - step <= n
           /\ (r.recurrence \in {"weekdays", "custom"} /\ DaysReadable(r.recurrence_days)) =>
                 /\ resp.result = IF hits = {} THEN -1 ELSE Earliest(hits)
                 /\ cursor + 14 * 86400 <= n => resp.result = -1
                 /\ AcceptedDays(r) = {} => resp.result = -1

\* C30 witness: a call for the weekdays reminder that fired on the Friday,
\* made more than 14 days later, returned none
C30_Witness ==
    /\ Called
    /\ reminders[resp.id].recurrence = "weekdays"
    /\ reminders[resp.id].fired_at # -1
    /\ resp.now_utc > reminders[resp.id].fired_at + 14 * 86400
    /\ resp.result = -1

\* the columns step 1 assigns, and those step 2 assigns
PromotedColumns == {"status", "fired_at", "fire_count"}
RearmedColumns == {"next_fire_at", "status", "acknowledged_at"}

\* C31: a run changes the status of a reminder at most once: a row its step 1
\* flipped to "due" is left as it is by its step 2, a row its step 2 re-armed
\* is held "pending" and not flipped to "due" even when its new next_fire_at
\* is within now_utc + 30 s, and the run's commit writes either a promotion
\* (fire_count one higher, next_fire_at kept) or a re-arm (fire_count and
\* fired_at kept), never both on one row.
C31_OneTransition ==
    [][ /\ \A k \in 1..Len(ticks') : \A i \in DOMAIN ticks'[k].sess :
              LET e == ticks'[k].sess[i]
              IN  \/ e.dirty = PromotedColumns /\ e.obj.status = "due"
                  \/ e.dirty = RearmedColumns /\ e.obj.status = "pending"
        /\ \A k \in 1..Len(ticks) :
              DoesStep2(k) =>
                 \A i \in DOMAIN ticks[k].sess : ticks'[k].sess[i] = ticks[k].sess[i]
        /\ \A i \in Kept2 :
              (RunEnds /\ reminders'[i].status # reminders[i].status) =>
                 \/ /\ Promoted(i)
                    /\ reminders'[i].fire_count = reminders[i].fire_count + 1
                    /\ reminders'[i].next_fire_at = reminders[i].next_fire_at
                 \/ /\ RearmedInTable(i)
                    /\ reminders'[i].fire_count = reminders[i].fire_count
                    /\ reminders'[i].fired_at = reminders[i].fired_at
      ]_vars

\* C31 witness: a run has re-armed a reminder for an instant within its
\* now_utc + 30 s and holds it as pending, about to commit
C31_Witness ==
    \E k \in 1..Len(ticks) : \E i \in DOMAIN ticks[k].sess :
        /\ ticks[k].pc = "commit"
        /\ ticks[k].sess[i].dirty = RearmedColumns
        /\ ticks[k].sess[i].obj.status = "pending"
        /\ ticks[k].sess[i].obj.next_fire_at <= ticks[k].now_utc + 30

\* the missed reminders of task u that are pending, due or snoozed
ActiveMissedOf(u) ==
    { i \in DOMAIN reminders :
         /\ reminders[i].task_id = u
         /\ reminders[i].reminder_type = "missed"
         /\ reminders[i].status \in {"pending", "due", "snoozed"} }

\* C32: when every missed reminder is the detector's, a task has at most one
\* missed reminder that is pending, due or snoozed, in every state that
\* ticks, acknowledgements, snoozes and task completions can reach.
C32_OneActiveMissed ==
    \A u \in TaskIds : Cardinality(ActiveMissedOf(u)) <= 1

\* C32 witness: the task has been flagged twice: its first missed reminder
\* fired and is acknowledged, its second is the one active
C32_Witness ==
    \E u \in DOMAIN tasks : \E i \in DOMAIN reminders :
        /\ reminders[i].task_id = u
        /\ reminders[i].reminder_type = "missed"
        /\ reminders[i].status = "acknowledged"
        /\ Cardinality(ActiveMissedOf(u)) = 1

\* task u has a missed reminder that is acknowledged
HasAcknowledgedMissed(u) ==
    \E i \in DOMAIN reminders :
        /\ reminders[i].task_id = u
        /\ reminders[i].reminder_type = "missed"
        /\ reminders[i].status = "acknowledged"

\* C33: an acknowledged missed reminder does not block the detector: a run
\* with UTC date today whose detector finds an open task scheduled 1 to 7
\* days before today, with an acknowledged missed reminder and none that is
\* pending, due or snoozed, adds a new one, pending, for 09:00 UTC of day
\* today + 1, and the run's commit inserts it; the acknowledged one stays.
C33_Reflagged ==
    [][ /\ \A k \in 1..Len(ticks) :
              DoesStep3(k) =>
                 LET today == ticks[k].now_utc \div 86400
                 IN  \A u \in DOMAIN tasks :
                        ( /\ ~tasks[u].is_completed
                          /\ tasks[u].scheduled_date \in (today - 7)..(today - 1)
                          /\ HasAcknowledgedMissed(u)
                          /\ ActiveMissedOf(u) = {} ) =>
                           /\ u \in DOMAIN ticks'[k].added
                           /\ FreshMissed(ticks'[k].added[u], u, today)
        /\ \A k \in 1..Len(ticks) :
              (ticks' = Without(ticks, k) /\ reminders' # reminders) =>
                 \A u \in DOMAIN ticks[k].added :
                    /\ \E i \in DOMAIN reminders' \ DOMAIN reminders :
                          reminders'[i] = ticks[k].added[u]
                    /\ \A i \in DOMAIN reminders :
                          (reminders[i].reminder_type = "missed"
                             /\ reminders[i].status = "acknowledged") =>
                             (i \in DOMAIN reminders' /\ reminders'[i] = reminders[i])
      ]_vars

\* C33 witness: the task's missed reminder fired and was acknowledged, the
\* task is still open, and the next run's detector has added a new one
C33_Witness ==
    \E k \in 1..Len(ticks) : \E u \in DOMAIN ticks[k].added :
        /\ ticks[k].pc = "commit"
        /\ u \in DOMAIN tasks
        /\ ~tasks[u].is_completed
        /\ HasAcknowledgedMissed(u)
        /\ ActiveMissedOf(u) = {}
        /\ FreshMissed(ticks[k].added[u], u, ticks[k].now_utc \div 86400)

\* the reminder ids of the scenario with ticks that keep running: the one
\* create_reminder hands out and the one of the detector's missed reminder
LiveIds == 1..2

\* row i is pending or snoozed, its next_fire_at is set and no later than
\* 30 s after the last instant the clock is read at, and the job has a run
\* time to come by then
AwaitsTick(i) ==
    /\ i \in DOMAIN reminders
    /\ reminders[i].status \in {"pending", "snoozed"}
    /\ reminders[i].next_fire_at # -1
    /\ reminders[i].next_fire_at <= LastInstant + 30
    /\ scheduler.running
    /\ scheduler.next_run_time <= LastInstant

\* row i is due
IsDue(i) == i \in DOMAIN reminders /\ reminders[i].status = "due"

C35_RearmNeverRaises ==
    \A i \in DOMAIN reminders :
        Rearmable(reminders[i]) => Yield(reminders[i]) # -2

\* C36: a run that starts at instant now flips to "due" every pending or
\* snoozed reminder whose next_fire_at is at most now + 30 s, whether its
\* task is completed or open, and its commit writes "due" whatever the task
\* is by then; step 2 of a run passes over every acknowledged recurring
\* reminder whose task is completed.
C36_PromotionIgnoresCompletion ==
    [][ /\ RunStarts =>
              \A i \in DOMAIN reminders :
                 ( /\ reminders[i].status \in {"pending", "snoozed"}
                   /\ reminders[i].next_fire_at # -1
                   /\ reminders[i].next_fire_at <= now + 30 ) =>
                    /\ i \in DOMAIN NewRun.sess
                    /\ NewRun.sess[i].obj.status = "due"
        /\ \A k \in 1..Len(ticks) :
              (ticks' = Without(ticks, k) /\ reminders' # reminders) =>
                 \A i \in DOMAIN ticks[k].sess :
                    ticks[k].sess[i].obj.status = "due" =>
                       (i \in DOMAIN reminders' /\ reminders'[i].status = "due")
        /\ \A k \in 1..Len(ticks) :
              DoesStep2(k) =>
                 \A i \in DOMAIN reminders :
                    ( /\ reminders[i].status = "acknowledged"
                      /\ reminders[i].recurrence # ""
                      /\ TaskCompleted(reminders[i]) ) =>
                       i \notin DOMAIN ticks'[k].sess
      ]_vars

\* C36 witness: the task is completed, and a run holds its reminder flipped
\* to "due" while the table still has the reminder as pending
C36_Witness ==
    \E k \in 1..Len(ticks) : \E i \in DOMAIN ticks[k].sess :
        /\ i \in DOMAIN reminders
        /\ TaskCompleted(reminders[i])
        /\ reminders[i].status = "pending"
        /\ ticks[k].sess[i].obj.status = "due"
        /\ ticks[k].pc = "step2"

\* C37: acknowledged_at is set exactly in the reminders whose status is
\* acknowledged: it is null in every pending, due and snoozed reminder; an
\* accepted acknowledge sets it to the instant of the request, and a re-arm
\* clears it.
C37_AcknowledgedAt ==
    [][ /\ \A i \in DOMAIN reminders' :
              (reminders'[i].acknowledged_at # -1) <=> (reminders'[i].status = "acknowledged")
        /\ \A i \in Kept2 :
              /\ (reminders[i].status = "due" /\ reminders'[i].status = "acknowledged") =>
                    reminders'[i].acknowledged_at = now
              /\ RearmedInTable(i) =>
                    (reminders[i].acknowledged_at # -1 /\ reminders'[i].acknowledged_at = -1)
      ]_vars

\* C37 witness: a recurring reminder that fired, was acknowledged and was
\* re-armed is pending with acknowledged_at null
C37_Witness ==
    \E i \in DOMAIN reminders :
        /\ reminders[i].recurrence # ""
        /\ reminders[i].fired_at # -1
        /\ reminders[i].status = "pending"
        /\ reminders[i].next_fire_at > reminders[i].fired_at
        /\ reminders[i].acknowledged_at = -1

\* C38: a reminder has fire_count 0 exactly when its fired_at is null;
\* every due, snoozed or acknowledged reminder has fired_at set and
\* fire_count at least 1; and every reminder a run has re-armed in its
\* step 2 has a fired_at, the last_fired_at the calculator was called with.
C38_FiredTogether ==
    /\ \A i \in DOMAIN reminders :
          /\ (reminders[i].fire_count = 0) <=> (reminders[i].fired_at = -1)
          /\ reminders[i].fire_count >= 0
          /\ reminders[i].status \in {"due", "snoozed", "acknowledged"} =>
                (reminders[i].fired_at # -1 /\ reminders[i].fire_count >= 1)
    /\ \A k \in 1..Len(ticks) : \A i \in DOMAIN ticks[k].sess :
          "next_fire_at" \in ticks[k].sess[i].dirty =>
             /\ ticks[k].sess[i].obj.fired_at # -1
             /\ ticks[k].sess[i].obj.fire_count >= 1

\* C38 witness: a run has just re-armed, in its step 2, a reminder that
\* fired once, for an instant later than its fired_at
C38_Witness ==
    \E k \in 1..Len(ticks) : \E i \in DOMAIN ticks[k].sess :
        /\ ticks[k].pc = "step3"
        /\ "next_fire_at" \in ticks[k].sess[i].dirty
        /\ ticks[k].sess[i].obj.fire_count = 1
        /\ ticks[k].sess[i].obj.fired_at >= 0
        /\ ticks[k].sess[i].obj.next_fire_at > ticks[k].sess[i].obj.fired_at

=============================================================================
